---- MODULE Spec2Model ----
(***************************************************************************)
(* Tarot bot: the reading session handler (app/bot.py handle_message), the *)
(* SQLite state store behind it (app/database.py) and the update           *)
(* dispatcher that runs the handlers (TarotBot.initialize).                *)
(*                                                                         *)
(* Time is counted in ticks (TicksPerSecond a second), so durations that are*)
(* not a whole number of seconds exist in the model (datetime.now() has    *)
(* microsecond resolution).                                                *)
(***************************************************************************)
EXTENDS Integers, Sequences, FiniteSets, TLC

\* ---------------------------------------------------------------- bounds
\* Times the wall clock moves forward in one run.
MaxAdvances == 1
\* Resolution of the model clock.
TicksPerSecond == 2
\* Largest cooldown setting, in minutes, that SpecCooldown tries.
MaxCooldownMinutes == 2

\* Commands handled in one run.
MaxCommands == 2

\* ------------------------------------------------------ program constants
\* bot.py:180  days = int(context.args[0]) if context.args else 7
DefaultStatsDays == 7
\* database.py:174  timedelta(days=days)
HoursPerDay == 24
\* database.py:106  cooldown_seconds = cooldown_minutes * 60
SecondsPerMinute == 60
\* database.py:54, 80, 83  default cooldown, 24 hours in minutes
DefaultCooldownMinutes == 1440
\* database.py:125  remaining_seconds + 59
RoundingSeconds == 59
\* bot.py:357  random.sample(..., 3)
DrawSize == 3
\* database.py:194, 205  LIMIT 5
TopLimit == 5

TicksPerMinute == SecondsPerMinute * TicksPerSecond

\* The updates (inbound text messages) of one run, in order of arrival.
Sessions == {1, 2}

\* Telegram user ids; constants.py:43 ADMIN_USER_IDS comes from the environment.
Users == {1, 2}
ADMIN_USER_IDS == {1}

\* A user of an earlier run who sends nothing in this one.
FormerUsers == {3}

\* The Telegram profiles: the admin has a user name, the others have set none.
TelegramUsernames == [u \in Users \cup FormerUsers |-> IF u = 1 THEN "admin1" ELSE ""]

Questions == {"q1", "q2"}

\* constants.py:47-87: the keys of TAROT_CARDS (a sub-catalog of the 36 cards).
\* A card name is the sequence of its words; none of them holds a comma.
TAROT_CARDS == { <<"Shut">>, <<"Mag">>, <<"Verkhovnaya", "Zhritsa">> }

\* A table has no row for the key: user_cooldowns none for the user,
\* bot_settings none for cooldown_minutes.
NoRow == -1

\* bot_settings has no row for test_mode.
NoFlag == "absent"

\* The amount by which the wall clock moves between two steps.
Delays == {DefaultCooldownMinutes * TicksPerMinute}

Max(a, b) == IF a >= b THEN a ELSE b
Min(a, b) == IF a <= b THEN a ELSE b

\* ------------------------------------------------------------------ state
VARIABLES
    run,            \* the run's environment: how many updates arrive, whether
                    \* the transport and the store can fail
    now,            \* wall clock, datetime.now(), in ticks
    advances,       \* how often the clock has moved
    bot_settings,   \* table bot_settings: cooldown_minutes, test_mode
    user_cooldowns, \* table user_cooldowns: rows (user_id, last_request)
    request_log,    \* table request_log, in insertion (id) order
    yandex_gpt,     \* bot.py:61-66: "client", or "None" when construction failed
    update_queue,   \* Application.update_queue: updates fetched, not yet handled
    sess,           \* per update: position in handle_message and its locals
    sent,           \* per update: the handler's last message to the transport
    reply,          \* the last command handled: who sent it, what was answered
    host            \* the machine: the bot processes, bot.lock, bot.pid and
                    \* the manager (manage.py)

vars == <<run, now, advances, bot_settings, user_cooldowns, request_log,
          yandex_gpt, update_queue, sess, sent, reply, host>>

\* What one bot process holds: the data of the model above.
program == <<run, now, advances, bot_settings, user_cooldowns, request_log,
             yandex_gpt, update_queue, sess, sent, reply>>

\* ------------------------------------------------------------ the host
\* The bot processes that may be started on the machine.
Bots == {1, 2}

\* No file at the path (bot.lock), no open descriptor, no pid in bot.pid.
NoFile == 0

\* The files (inodes) that bot.lock may name, one per process and a spare.
Inodes == 1..(Cardinality(Bots) + 1)

\* No process: python app/bot.py is not running.
BotOff == [pc |-> "off", running |-> FALSE, lock_fd |-> NoFile, locked |-> FALSE]

\* Nothing runs, no lock file, no pid file.
HostDown ==
    [lock_file |-> NoFile, pid_file |-> NoFile, manager |-> "idle",
     child |-> NoFile, bot |-> [b \in Bots |-> BotOff]]

\* One bot process, started directly, holds the lock and polls: the process
\* whose handlers the model above describes.
Serving ==
    [HostDown EXCEPT !.lock_file = 1,
                     !.bot[1] = [pc |-> "polling", running |-> TRUE,
                                 lock_fd |-> 1, locked |-> TRUE]]

\* A call to the transport (to the store) may fail in this run.
TransportMayFail == run.transport = "flaky"
StoreMayFail == run.store = "flaky"

\* --------------------------------------------------------- the store
\* A slip of database.py:52-61: INSERT OR REPLACE, every start writes the
\* defaults.
DatabaseInitReplace(settings) ==
    [cooldown_minutes |-> DefaultCooldownMinutes, test_mode |-> "false"]

\* database.py:21-67 Database.init over the bot_settings of the file: CREATE
\* TABLE IF NOT EXISTS keeps the tables, INSERT OR IGNORE writes '1440' and
\* 'false' for the keys that have no row.
DatabaseInit(settings) ==
    [cooldown_minutes |-> IF settings.cooldown_minutes = NoRow
                          THEN DefaultCooldownMinutes
                          ELSE settings.cooldown_minutes,
     test_mode |-> IF settings.test_mode = NoFlag THEN "false"
                   ELSE settings.test_mode]

\* A slip of database.py:81-83: no cooldown at all when the read fails.
GetCooldownMinutesOrNone(read_ok) ==
    IF read_ok THEN bot_settings.cooldown_minutes ELSE 0

\* database.py:69-83 get_cooldown_minutes: the stored setting, 1440 when the
\* read fails.
GetCooldownMinutes(read_ok) ==
    IF read_ok THEN bot_settings.cooldown_minutes ELSE DefaultCooldownMinutes

\* database.py:117-126: the minutes left of a cooldown of cooldown_minutes for a
\* last request at last_request, seen at time t.
RemainingMinutes(cooldown_minutes, last_request, t) ==
    LET cooldown_ticks == cooldown_minutes * SecondsPerMinute * TicksPerSecond
        time_diff == t - last_request
        remaining == cooldown_ticks - time_diff
    IN  IF remaining <= 0
        THEN 0
        ELSE Max(1, (remaining + RoundingSeconds * TicksPerSecond) \div TicksPerMinute)

\* A slip of database.py:114: the missing row is not told from a timestamp.
GetRemainingWithoutRowCheck(cooldown_minutes, row, t, read_ok) ==
    IF ~read_ok THEN 0 ELSE RemainingMinutes(cooldown_minutes, row, t)

\* database.py:102-130 get_remaining_cooldown_minutes: 0 without a row and 0
\* when the read of user_cooldowns fails.
GetRemainingCooldownMinutes(cooldown_minutes, row, t, read_ok) ==
    IF ~read_ok THEN 0
    ELSE IF row = NoRow THEN 0
    ELSE RemainingMinutes(cooldown_minutes, row, t)

\* database.py:132-140 is_on_cooldown: (on cooldown, remaining minutes).
IsOnCooldown(remaining_minutes) == <<remaining_minutes > 0, remaining_minutes>>

\* database.py:164 ','.join(cards): the names, a comma between two of them.
RECURSIVE JoinCards(_)
JoinCards(cards) ==
    IF cards = <<>> THEN <<>>
    ELSE IF Len(cards) = 1 THEN Head(cards)
    ELSE Head(cards) \o <<",">> \o JoinCards(Tail(cards))

\* bot.py:332 update.effective_user.username or "No username".
Username(user_id) ==
    IF TelegramUsernames[user_id] = "" THEN "No username"
    ELSE TelegramUsernames[user_id]

\* database.py:157-167 log_request: the row inserted into request_log.
\* update names the update whose handler inserts the row (not a column).
LogRow(update, user_id, question, cards, success) ==
    [ update    |-> update,
      user_id   |-> user_id,
      username  |-> Username(user_id),
      question  |-> question,
      cards     |-> JoinCards(cards),
      timestamp |-> now,
      success   |-> success ]

\* db.log_request(...): the row is inserted, or the error is logged and
\* swallowed (database.py:166-167).
LogRequest(row, ok) ==
    /\ ok \/ StoreMayFail
    /\ request_log' = IF ok THEN Append(request_log, row) ELSE request_log

\* database.py:110-114: SELECT last_request FROM user_cooldowns WHERE
\* user_id = ?, fetchone(): the timestamp of a row of the user, NoRow without one.
LastRequest(user_id) ==
    IF \E r \in user_cooldowns : r.user_id = user_id
    THEN (CHOOSE r \in user_cooldowns : r.user_id = user_id).last_request
    ELSE NoRow

\* A slip of database.py:146-151: a plain INSERT into a table without a key.
InsertLastRequest(user_id, last_request, ok) ==
    IF ok
    THEN user_cooldowns \cup {[user_id |-> user_id, last_request |-> last_request]}
    ELSE user_cooldowns

\* database.py:142-155 update_last_request: INSERT ... ON CONFLICT(user_id) DO
\* UPDATE SET last_request = excluded.last_request; an error is logged and
\* swallowed.
UpdateLastRequest(user_id, last_request, ok) ==
    IF ok
    THEN {r \in user_cooldowns : r.user_id # user_id}
             \cup {[user_id |-> user_id, last_request |-> last_request]}
    ELSE user_cooldowns

\* A slip of database.py:251-253: a failed read counts as test mode.
IsTestModeOnFailedRead(read_ok) == ~read_ok \/ bot_settings.test_mode = "true"

\* database.py:241-253 is_test_mode: False when the read fails.
IsTestMode(read_ok) == read_ok /\ bot_settings.test_mode = "true"

\* ------------------------------------------------------- the transport
\* No wait is stated.
NoWait == [unit |-> "none", amount |-> 0]

Message(kind) ==
    [ kind |-> kind, role |-> 0, card |-> <<>>, minutes |-> 0, wait |-> NoWait,
      text |-> "", ok |-> TRUE ]

\* What the model keeps of the transport for one handler: the last message the
\* handler has handed over (ok: whether it was delivered).
NothingSent == Message("NONE")

\* context.bot.send_message / send_photo: the message is handed to the
\* transport, which delivers it (ok) or raises.
Send(s, m, ok) ==
    /\ ok \/ TransportMayFail
    /\ sent' = [sent EXCEPT ![s] = [m EXCEPT !.ok = ok]]

\* --------------------------------------------------------- the handler
NoSession ==
    [ pc |-> "absent", user_id |-> 0, question |-> "", check_time |-> 0,
      is_cooldown |-> FALSE, remaining_minutes |-> 0, cards |-> <<>>,
      cursor |-> 0, is_test |-> FALSE, prompt |-> <<>>, calls |-> 0,
      response |-> "", last_request |-> 0 ]

\* What stays of a handler that has returned: its frame is gone, the model
\* keeps who asked what, when the cooldown was checked and what the check said.
Returned(r) ==
    [NoSession EXCEPT !.pc = r.pc, !.user_id = r.user_id, !.question = r.question,
                      !.check_time = r.check_time, !.is_cooldown = r.is_cooldown]

\* Positions of a handler that has been started and has not returned.
Running(s) == sess[s].pc \notin {"absent", "queued", "done", "raised"}

\* The handler moves on to pc; "done" is a return, "raised" an exception that
\* leaves it, and both end the frame.
Goto(s, pc) ==
    sess' = [sess EXCEPT ![s] = IF pc \in {"done", "raised"}
                                THEN Returned([@ EXCEPT !.pc = pc])
                                ELSE [@ EXCEPT !.pc = pc]]

\* context.args of a command: no argument, or a first argument that int()
\* parses (numeric) to value, or one it does not parse.
NoArgument == [given |-> FALSE, numeric |-> FALSE, value |-> 0]
CommandArgs ==
    {NoArgument, [given |-> TRUE, numeric |-> FALSE, value |-> 0]}
        \cup {[given |-> TRUE, numeric |-> TRUE, value |-> v] : v \in {-1, 0, 1, 5}}

\* str.isdigit(): digits only, so no sign.
IsDigit(arg) == arg.given /\ arg.numeric /\ arg.value >= 0

\* No command has been handled.
NoReply ==
    [number |-> 0, command |-> "none", user_id |-> 0, arg |-> NoArgument,
     messages |-> <<>>, raised |-> FALSE]

\* A fresh database file after Database.init (database.py:21-67), no update
\* fetched yet.
InitProcess ==
    /\ advances = 0
    /\ request_log = <<>>
    /\ yandex_gpt \in {"client", "None"}
    /\ update_queue = <<>>
    /\ sess = [s \in Sessions |-> NoSession]
    /\ sent = [s \in Sessions |-> NothingSent]
    /\ reply = NoReply
    /\ host = Serving

Init ==
    /\ run = [updates |-> 2, transport |-> "reliable", store |-> "flaky"]
    /\ bot_settings = [cooldown_minutes |-> DefaultCooldownMinutes, test_mode |-> "false"]
    /\ user_cooldowns = {}
    /\ now = 0
    /\ InitProcess

\* The wall clock moves forward.
Advance ==
    /\ advances < MaxAdvances
    /\ \E d \in Delays : now' = now + d
    /\ advances' = advances + 1
    /\ UNCHANGED <<host, run, reply, bot_settings, user_cooldowns, request_log, yandex_gpt,
                   update_queue, sess, sent>>

\* A text message that is not a command arrives (bot.py:512, 331-333).
\* Questions are opaque texts: the first one of a run is called "q1".
Receive(s, u, q) ==
    /\ sess[s].pc = "absent"
    /\ \A r \in Sessions : r < s => sess[r].pc # "absent"
    /\ Cardinality({r \in Sessions : sess[r].pc # "absent"}) < run.updates
    /\ (\A r \in Sessions : sess[r].pc = "absent") => q = "q1"
    /\ sess' = [sess EXCEPT ![s] = [NoSession EXCEPT !.pc = "queued",
                                       !.user_id = u, !.question = q]]
    /\ update_queue' = Append(update_queue, s)
    /\ UNCHANGED <<host, run, reply, now, advances, bot_settings, user_cooldowns,
                   request_log, yandex_gpt, sent>>

\* Updates are handled at once, whatever another handler is doing.
CanDispatchConcurrently == TRUE

\* bot.py:504 builds the Application without concurrent_updates and bot.py:512
\* registers handle_message as a blocking handler: the update fetcher awaits
\* the handler of one update before it takes the next one from the queue.
CanDispatch == \A r \in Sessions : ~Running(r)

Dispatch(s) ==
    /\ update_queue # <<>>
    /\ s = Head(update_queue)
    /\ CanDispatch
    /\ update_queue' = Tail(update_queue)
    /\ Goto(s, "check")
    /\ sent' = [r \in Sessions |->
                  IF sess[r].pc \in {"done", "raised"} THEN NothingSent ELSE sent[r]]
    /\ UNCHANGED <<host, run, reply, now, advances, bot_settings, user_cooldowns,
                   request_log, yandex_gpt>>

\* A slip of bot.py:341-352: the activity is recorded whatever the check said.
AfterCheckAlwaysRecord(is_cooldown) == "record"

\* bot.py:341: if is_cooldown, the notice and return; else on to
\* update_last_request.
AfterCheck(is_cooldown) == IF is_cooldown THEN "cooldown_notice" ELSE "record"

\* bot.py:340  is_cooldown, remaining_minutes = await db.is_on_cooldown(user_id)
CheckCooldown(s) ==
    /\ sess[s].pc = "check"
    /\ \E settings_ok \in BOOLEAN, row_ok \in BOOLEAN :
        LET remaining == GetRemainingCooldownMinutes(
                             GetCooldownMinutes(settings_ok),
                             LastRequest(sess[s].user_id), now, row_ok)
            result == IsOnCooldown(remaining)
        IN  /\ (settings_ok /\ row_ok) \/ StoreMayFail
            /\ sess' = [sess EXCEPT ![s].check_time = now,
                                    ![s].is_cooldown = result[1],
                                    ![s].remaining_minutes = result[2],
                                    ![s].pc = AfterCheck(result[1])]
    /\ UNCHANGED <<host, run, reply, now, advances, bot_settings, user_cooldowns, request_log,
                   yandex_gpt, update_queue, sent>>

\* messages.py:57-65 get_cooldown_message: the wait the notice states, "через
\* N часа" from two hours on, "через час" from one hour on, "через N минут"
\* below.
GetCooldownMessage(minutes) ==
    IF minutes >= 120 THEN [unit |-> "hours", amount |-> minutes \div 60]
    ELSE IF minutes >= 60 THEN [unit |-> "hours", amount |-> 1]
    ELSE [unit |-> "minutes", amount |-> minutes]

\* bot.py:341-348: the cooldown notice, then return; a failed send raises into
\* the handler at bot.py:458.
CooldownNotice(s) ==
    /\ sess[s].pc = "cooldown_notice"
    /\ \E ok \in BOOLEAN :
        /\ Send(s, [Message("COOLDOWN") EXCEPT
                        !.minutes = sess[s].remaining_minutes,
                        !.wait = GetCooldownMessage(sess[s].remaining_minutes)], ok)
        /\ Goto(s, IF ok THEN "done" ELSE "log_failed_outer")
    /\ UNCHANGED <<host, run, reply, now, advances, bot_settings, user_cooldowns, request_log,
                   yandex_gpt, update_queue>>

\* bot.py:352 await db.update_last_request(user_id), database.py:145-152: the
\* connection is awaited, then datetime.now() is taken for the statement.
RecordStamp(s) ==
    /\ sess[s].pc = "record"
    /\ sess' = [sess EXCEPT ![s] = [@ EXCEPT !.pc = "record_write",
                                              !.last_request = now]]
    /\ UNCHANGED <<host, run, reply, now, advances, bot_settings, user_cooldowns,
                   request_log, yandex_gpt, update_queue, sent>>

\* database.py:146-153: the statement is executed and committed; the handler
\* goes on to the draw whether or not the write went through.
RecordActivity(s) ==
    /\ sess[s].pc = "record_write"
    /\ \E ok \in BOOLEAN :
        /\ ok \/ StoreMayFail
        /\ user_cooldowns' =
               UpdateLastRequest(sess[s].user_id, sess[s].last_request, ok)
    /\ sess' = [sess EXCEPT ![s] = [@ EXCEPT !.pc = "draw", !.last_request = 0]]
    /\ UNCHANGED <<host, run, reply, now, advances, bot_settings, request_log, yandex_gpt,
                   update_queue, sent>>

\* A slip of bot.py:357: three cards drawn with replacement (random.choices).
SampleWithReplacement == [1..DrawSize -> TAROT_CARDS]

\* random.sample(list(TAROT_CARDS.keys()), 3): three different cards in any order.
Sample ==
    { c \in [1..DrawSize -> TAROT_CARDS] :
        \A i, j \in 1..DrawSize : i # j => c[i] # c[j] }

\* bot.py:355-361
Draw(s) ==
    /\ sess[s].pc = "draw"
    /\ \E cards \in Sample :
        sess' = [sess EXCEPT ![s].cards = cards, ![s].pc = "reading_start"]
    /\ UNCHANGED <<host, run, reply, now, advances, bot_settings, user_cooldowns,
                   request_log, yandex_gpt, update_queue, sent>>

\* bot.py:365-370
ReadingStart(s) ==
    /\ sess[s].pc = "reading_start"
    /\ \E ok \in BOOLEAN :
        /\ Send(s, Message("READING_START"), ok)
        /\ sess' = [sess EXCEPT ![s].cursor = IF ok THEN 1 ELSE @,
                                ![s].pc = IF ok THEN "card_image" ELSE "log_failed_inner"]
    /\ UNCHANGED <<host, run, reply, now, advances, bot_settings, user_cooldowns, request_log,
                   yandex_gpt, update_queue>>

\* The caption of a card: PAST_CARD / PRESENT_CARD / FUTURE_CARD by role
\* (bot.py:373, 384, 395), with the note send_card_image adds to it.
Caption(kind, s) ==
    [Message(kind) EXCEPT !.role = sess[s].cursor, !.card = sess[s].cards[sess[s].cursor]]

\* A slip of bot.py:378-383: the intro of the second card is left out.
AfterCardNoSecondIntro(s) ==
    IF sess[s].cursor = 1 THEN "card_image"
    ELSE IF sess[s].cursor < DrawSize THEN "intro" ELSE "interp_start"

\* send_card_image has returned (bot.py:374-375, 385-386, 396-397).
AfterCard(s) ==
    IF sess[s].cursor < DrawSize THEN "intro" ELSE "interp_start"

\* bot.py:110-131: the image file is there and the photo is sent; or it is
\* missing and the caption is sent with a note; or opening it raises. An
\* error goes to bot.py:139.
CardImage(s) ==
    /\ sess[s].pc = "card_image"
    /\ \/ \E ok \in BOOLEAN :
            /\ Send(s, Caption("PHOTO", s), ok)
            /\ Goto(s, IF ok THEN "card_caption" ELSE "card_error")
       \/ \E ok \in BOOLEAN :
            /\ Send(s, Caption("CAPTION_IMAGE_NOT_FOUND", s), ok)
            /\ Goto(s, IF ok THEN AfterCard(s) ELSE "card_error")
       \/ /\ Goto(s, "card_error")
          /\ UNCHANGED sent
    /\ UNCHANGED <<host, run, reply, now, advances, bot_settings, user_cooldowns, request_log,
                   yandex_gpt, update_queue>>

\* bot.py:134-138: the caption after the photo.
CardCaption(s) ==
    /\ sess[s].pc = "card_caption"
    /\ \E ok \in BOOLEAN :
        /\ Send(s, Caption("CAPTION", s), ok)
        /\ Goto(s, IF ok THEN AfterCard(s) ELSE "card_error")
    /\ UNCHANGED <<host, run, reply, now, advances, bot_settings, user_cooldowns, request_log,
                   yandex_gpt, update_queue>>

\* bot.py:139-145: the caption with the text of the exception; a failure of
\* this send leaves send_card_image and reaches bot.py:442.
CardError(s) ==
    /\ sess[s].pc = "card_error"
    /\ \E ok \in BOOLEAN :
        /\ Send(s, Caption("CAPTION_ERROR_TEXT", s), ok)
        /\ Goto(s, IF ok THEN AfterCard(s) ELSE "log_failed_inner")
    /\ UNCHANGED <<host, run, reply, now, advances, bot_settings, user_cooldowns, request_log,
                   yandex_gpt, update_queue>>

\* bot.py:378-383, 389-394: the intro of the second and of the third card.
Intro(s) ==
    /\ sess[s].pc = "intro"
    /\ \E ok \in BOOLEAN :
        /\ Send(s, Message(IF sess[s].cursor = 1 THEN "SECOND_CARD_INTRO"
                                                 ELSE "THIRD_CARD_INTRO"), ok)
        /\ sess' = [sess EXCEPT ![s].cursor = IF ok THEN @ + 1 ELSE @,
                                ![s].pc = IF ok THEN "card_image" ELSE "log_failed_inner"]
    /\ UNCHANGED <<host, run, reply, now, advances, bot_settings, user_cooldowns, request_log,
                   yandex_gpt, update_queue>>

\* bot.py:399-405: the first send inside the inner try.
InterpStart(s) ==
    /\ sess[s].pc = "interp_start"
    /\ \E ok \in BOOLEAN :
        /\ Send(s, Message("INTERPRETATION_START"), ok)
        /\ Goto(s, IF ok THEN "test_check" ELSE "powers_unavailable")
    /\ UNCHANGED <<host, run, reply, now, advances, bot_settings, user_cooldowns, request_log,
                   yandex_gpt, update_queue>>

\* bot.py:408  is_test = await db.is_test_mode() and user_id in ADMIN_USER_IDS
TestCheck(s) ==
    /\ sess[s].pc = "test_check"
    /\ \E read_ok \in BOOLEAN :
        LET is_test == IsTestMode(read_ok) /\ sess[s].user_id \in ADMIN_USER_IDS
        IN  /\ read_ok \/ StoreMayFail
            /\ sess' = [sess EXCEPT ![s].is_test = is_test,
                                    ![s].pc = IF is_test THEN "test_notice"
                                                         ELSE "interpret"]
    /\ UNCHANGED <<host, run, reply, now, advances, bot_settings, user_cooldowns, request_log,
                   yandex_gpt, update_queue, sent>>

\* bot.py:410-416: the test mode notice; nothing follows it in the handler.
TestNotice(s) ==
    /\ sess[s].pc = "test_notice"
    /\ \E ok \in BOOLEAN :
        /\ Send(s, Message("TEST_MODE_NOTICE"), ok)
        /\ Goto(s, IF ok THEN "done" ELSE "powers_unavailable")
    /\ UNCHANGED <<host, run, reply, now, advances, bot_settings, user_cooldowns, request_log,
                   yandex_gpt, update_queue>>

\* yandex_gpt.py:66-76: the text of the first alternative (which may be empty),
\* the "cards are silent" text without an alternative, and the error text the
\* client returns when the service call raises.
ServiceTexts == {"INTERPRETATION_TEXT", "", "CARDS_SILENT", "ERROR_READING_CARDS"}

\* yandex_gpt.py:74-76: what generate_interpretation returns when the call of
\* the service raises.
ServiceErrorText == "ERROR_READING_CARDS"

\* yandex_gpt.py:26-33: the cards and the question as the prompt names them.
Prompt(cards, question) ==
    [past |-> cards[1], present |-> cards[2], future |-> cards[3],
     question |-> question]

\* bot.py:418  response = await yandex_gpt.generate_interpretation(cards, question)
\* With yandex_gpt = None (bot.py:66) the call raises into bot.py:435.
Interpret(s) ==
    /\ sess[s].pc = "interpret"
    /\ \/ /\ yandex_gpt = "None"
          /\ Goto(s, "powers_unavailable")
       \/ /\ yandex_gpt = "client"
          /\ \E response \in ServiceTexts :
                sess' = [sess EXCEPT ![s].prompt = Prompt(sess[s].cards, sess[s].question),
                                     ![s].calls = @ + 1,
                                     ![s].response = response,
                                     ![s].pc = "log_success"]
    /\ UNCHANGED <<host, run, reply, now, advances, bot_settings, user_cooldowns, request_log,
                   yandex_gpt, update_queue, sent>>

\* A slip of bot.py:424: the cards are logged in reverse order.
LoggedCardsReversed(s) ==
    [i \in 1..Len(sess[s].cards) |-> sess[s].cards[Len(sess[s].cards) + 1 - i]]

\* bot.py:424  cards=cards: the argument of the success log.
LoggedCards(s) == sess[s].cards

\* bot.py:420-426: the success row, written before the interpretation is sent.
LogSuccess(s) ==
    /\ sess[s].pc = "log_success"
    /\ \E ok \in BOOLEAN :
        LogRequest(LogRow(s, sess[s].user_id, sess[s].question, LoggedCards(s), TRUE), ok)
    /\ Goto(s, "send_interpretation")
    /\ UNCHANGED <<host, run, reply, now, advances, bot_settings, user_cooldowns, yandex_gpt,
                   update_queue, sent>>

\* bot.py:429  response if response else CARDS_SILENT
InterpretationText(response) == IF response = "" THEN "CARDS_SILENT" ELSE response

\* bot.py:429-434: the last statement of the inner try.
SendInterpretation(s) ==
    /\ sess[s].pc = "send_interpretation"
    /\ \E ok \in BOOLEAN :
        /\ Send(s, [Message("INTERPRETATION") EXCEPT
                        !.text = InterpretationText(sess[s].response)], ok)
        /\ Goto(s, IF ok THEN "done" ELSE "powers_unavailable")
    /\ UNCHANGED <<host, run, reply, now, advances, bot_settings, user_cooldowns, request_log,
                   yandex_gpt, update_queue>>

\* bot.py:435-441: the handler of the inner try; its own failure reaches bot.py:442.
PowersUnavailable(s) ==
    /\ sess[s].pc = "powers_unavailable"
    /\ \E ok \in BOOLEAN :
        /\ Send(s, Message("MYSTICAL_POWERS_UNAVAILABLE"), ok)
        /\ Goto(s, IF ok THEN "done" ELSE "log_failed_inner")
    /\ UNCHANGED <<host, run, reply, now, advances, bot_settings, user_cooldowns, request_log,
                   yandex_gpt, update_queue>>

\* bot.py:445-451 and bot.py:461-467: the failure row of both handlers.
FailureRow(s) == LogRow(s, sess[s].user_id, sess[s].question, <<>>, FALSE)

\* bot.py:442-451
LogFailedInner(s) ==
    /\ sess[s].pc = "log_failed_inner"
    /\ \E ok \in BOOLEAN : LogRequest(FailureRow(s), ok)
    /\ Goto(s, "error_inner")
    /\ UNCHANGED <<host, run, reply, now, advances, bot_settings, user_cooldowns, yandex_gpt,
                   update_queue, sent>>

\* bot.py:452-456: a failure of this send is raised inside the try of
\* bot.py:337 and reaches bot.py:458.
ErrorInner(s) ==
    /\ sess[s].pc = "error_inner"
    /\ \E ok \in BOOLEAN :
        /\ Send(s, Message("ERROR_MESSAGE"), ok)
        /\ Goto(s, IF ok THEN "done" ELSE "log_failed_outer")
    /\ UNCHANGED <<host, run, reply, now, advances, bot_settings, user_cooldowns, request_log,
                   yandex_gpt, update_queue>>

\* bot.py:458-467
LogFailedOuter(s) ==
    /\ sess[s].pc = "log_failed_outer"
    /\ \E ok \in BOOLEAN : LogRequest(FailureRow(s), ok)
    /\ Goto(s, "error_outer")
    /\ UNCHANGED <<host, run, reply, now, advances, bot_settings, user_cooldowns, yandex_gpt,
                   update_queue, sent>>

\* bot.py:468-472: a failure of this send leaves handle_message as an exception.
ErrorOuter(s) ==
    /\ sess[s].pc = "error_outer"
    /\ \E ok \in BOOLEAN :
        /\ Send(s, Message("ERROR_MESSAGE"), ok)
        /\ Goto(s, IF ok THEN "done" ELSE "raised")
    /\ UNCHANGED <<host, run, reply, now, advances, bot_settings, user_cooldowns, request_log,
                   yandex_gpt, update_queue>>

\* database.py:255-271 toggle_test_mode: the negation of what is_test_mode
\* reads is written; an error of the write is logged and swallowed. No handler
\* of bot.py reaches it (switch_mode_command calls set_test_mode): it is the
\* store's own operation on the flag.
ToggleTestMode ==
    /\ \E read_ok \in BOOLEAN, write_ok \in BOOLEAN :
        /\ (read_ok /\ write_ok) \/ StoreMayFail
        /\ bot_settings' =
              IF write_ok
              THEN [bot_settings EXCEPT !.test_mode =
                        IF IsTestMode(read_ok) THEN "false" ELSE "true"]
              ELSE bot_settings
    /\ UNCHANGED <<host, run, reply, now, advances, user_cooldowns, request_log,
                   yandex_gpt, update_queue, sess, sent>>

\* ------------------------------------------------------- the commands
\* NULL, what SQL's SUM gives over no rows.
Null == -1

\* The empty dict, which get_user_stats returns when the query fails.
NoStats ==
    [period_days |-> 0, total_requests |-> 0, unique_users |-> 0,
     successful_requests |-> 0, failed_requests |-> 0,
     top_users |-> <<>>, top_questions |-> <<>>]

\* A message of a command handler.
CommandMessage(kind) == [kind |-> kind, ok |-> TRUE, minutes |-> 0, stats |-> NoStats]

TicksPerDay == HoursPerDay * SecondsPerMinute * TicksPerMinute

\* database.py:174, 183: the rows of the log inside the window of days days.
InWindow(days) ==
    {i \in 1..Len(request_log) : request_log[i].timestamp > now - days * TicksPerDay}

\* SUM(CASE WHEN c THEN 1 ELSE 0 END) over the rows rows, of which those in
\* matching satisfy c.
SqlSum(rows, matching) == IF rows = {} THEN Null ELSE Cardinality(matching)

\* SELECT k, COUNT(*) ... GROUP BY k over the rows rows, key[i] the value of k
\* in row i: the pairs <<k, count>>.
GroupCount(rows, key) ==
    { <<k, Cardinality({i \in rows : key[i] = k})>> : k \in {key[i] : i \in rows} }

\* ORDER BY count DESC LIMIT 5 over the pairs groups: the lists the query may
\* return; the order of two groups of the same count is not specified.
OrderedTop(groups) ==
    LET n == Min(TopLimit, Cardinality(groups))
    IN  { q \in [1..n -> groups] :
            /\ \A i, j \in 1..n : i < j => (q[i] # q[j] /\ q[i][2] >= q[j][2])
            /\ \A g \in groups :
                  (\A i \in 1..n : q[i] # g) => \A i \in 1..n : q[i][2] >= g[2] }

\* database.py:187-196: the most active users, grouped by the username column.
TopUsers(rows) ==
    OrderedTop(GroupCount(rows, [i \in rows |-> request_log[i].username]))

\* database.py:198-207: the most common questions.
TopQuestions(rows) ==
    OrderedTop(GroupCount(rows, [i \in rows |-> request_log[i].question]))

\* database.py:169-221 get_user_stats: the aggregates the call may return; the
\* empty dict (NoStats) when the query fails.
GetUserStats(days, read_ok) ==
    IF ~read_ok THEN {NoStats}
    ELSE LET rows == InWindow(days)
         IN  { [period_days |-> days,
                total_requests |-> Cardinality(rows),
                unique_users |-> Cardinality({request_log[i].user_id : i \in rows}),
                successful_requests |->
                    SqlSum(rows, {i \in rows : request_log[i].success}),
                failed_requests |->
                    SqlSum(rows, {i \in rows : ~request_log[i].success}),
                top_users |-> top_users,
                top_questions |-> top_questions] :
               top_users \in TopUsers(rows), top_questions \in TopQuestions(rows) }

\* database.py:26-29: the columns of bot_settings.
SettingsColumns == {"key", "value"}

\* database.py:90-92: the columns set_cooldown_minutes inserts into.
SetCooldownColumns == {"key", "value", "updated_at", "updated_by"}

\* database.py:85-100 set_cooldown_minutes: <<bot_settings afterwards, result>>.
\* The statement fails when the table lacks a column it names, and any error is
\* logged and answered with False.
SetCooldownMinutes(minutes, ok) ==
    IF ok /\ SetCooldownColumns \subseteq SettingsColumns
    THEN <<[bot_settings EXCEPT !.cooldown_minutes = minutes], TRUE>>
    ELSE <<bot_settings, FALSE>>

\* Every requester passes for an administrator.
IsAdminAnyone(user_id) == user_id \in Users

\* bot.py:169, 242, 302  user_id in ADMIN_USER_IDS
IsAdmin(user_id) == user_id \in ADMIN_USER_IDS

\* A command is handled like any update: when no other handler runs.
CanHandleCommand ==
    /\ CanDispatch
    /\ update_queue = <<>>
    /\ reply.number < MaxCommands

\* The handler of command has ended: what it sent and whether an exception
\* left it.
Answer(command, user_id, arg, messages, raised) ==
    reply' = [number |-> reply.number + 1, command |-> command, user_id |-> user_id,
              arg |-> arg, messages |-> messages, raised |-> raised]

\* A send outside any try: the message, and the exception of a failed send
\* leaves the handler.
SendOrRaise(command, user_id, arg, m) ==
    \E ok \in BOOLEAN :
        /\ ok \/ TransportMayFail
        /\ Answer(command, user_id, arg, <<[m EXCEPT !.ok = ok]>>, ~ok)

\* A send inside a try whose handler sends fallback: the message; when its send
\* fails, the fallback; when that fails too, the exception leaves the handler.
SendOrFallback(command, user_id, arg, m, fallback) ==
    \E ok \in BOOLEAN, fallback_ok \in BOOLEAN :
        /\ (ok /\ fallback_ok) \/ TransportMayFail
        /\ ok => fallback_ok
        /\ Answer(command, user_id, arg,
                  IF ok THEN <<m>>
                  ELSE <<[m EXCEPT !.ok = FALSE],
                         [CommandMessage(fallback) EXCEPT !.ok = fallback_ok]>>,
                  ~fallback_ok)

\* bot.py:179-182: int(context.args[0]), 7 without an argument or when it
\* does not parse.
StatsDays(arg) == IF arg.given /\ arg.numeric THEN arg.value ELSE DefaultStatsDays

\* bot.py:154-222 stats_command
StatsCommand(user_id, arg) ==
    /\ CanHandleCommand
    /\ \E read_ok \in BOOLEAN :
      \E stats \in GetUserStats(StatsDays(arg), read_ok) :
        LET m == IF ADMIN_USER_IDS = {} THEN CommandMessage("ADMINS_EMPTY")
                 ELSE IF ~IsAdmin(user_id) THEN CommandMessage("STATS_DENIED")
                 ELSE IF stats = NoStats THEN CommandMessage("STATS_UNAVAILABLE")
                 ELSE [CommandMessage("STATS") EXCEPT !.stats = stats]
        IN  /\ read_ok \/ (StoreMayFail /\ IsAdmin(user_id) /\ ADMIN_USER_IDS # {})
            /\ SendOrFallback("stats", user_id, arg, m, "STATS_ERROR")
    /\ UNCHANGED <<host, run, now, advances, bot_settings, user_cooldowns, request_log,
                   yandex_gpt, update_queue, sess, sent>>

\* A slip of bot.py:263: only a negative number of minutes is refused.
TooSmallNegativeOnly(minutes) == minutes < 0

\* bot.py:263 if minutes < 1
TooSmall(minutes) == minutes < 1

\* bot.py:237-296 set_cooldown_command
SetCooldownCommand(user_id, arg) ==
    /\ CanHandleCommand
    /\ IF ~IsAdmin(user_id)
       THEN /\ SendOrRaise("set_cooldown", user_id, arg, CommandMessage("SET_COOLDOWN_DENIED"))
            /\ UNCHANGED bot_settings
       ELSE IF ~IsDigit(arg)
       THEN /\ SendOrFallback("set_cooldown", user_id, arg,
                              CommandMessage("SET_COOLDOWN_USAGE"), "SET_COOLDOWN_ERROR")
            /\ UNCHANGED bot_settings
       ELSE IF TooSmall(arg.value)
       THEN /\ SendOrFallback("set_cooldown", user_id, arg,
                              CommandMessage("SET_COOLDOWN_TOO_SMALL"), "SET_COOLDOWN_ERROR")
            /\ UNCHANGED bot_settings
       ELSE \E write_ok \in BOOLEAN :
              LET result == SetCooldownMinutes(arg.value, write_ok)
              IN  /\ write_ok \/ StoreMayFail
                  /\ bot_settings' = result[1]
                  /\ SendOrFallback("set_cooldown", user_id, arg,
                        IF result[2]
                        THEN [CommandMessage("COOLDOWN_SET") EXCEPT !.minutes = arg.value]
                        ELSE CommandMessage("COOLDOWN_UPDATE_FAILED"),
                        "SET_COOLDOWN_ERROR")
    /\ UNCHANGED <<host, run, now, advances, user_cooldowns, request_log,
                   yandex_gpt, update_queue, sess, sent>>

\* bot.py:298-321 switch_mode_command: Database has no set_test_mode, so for
\* an administrator the call at bot.py:313 raises AttributeError after the
\* flag was read; nothing is written and nothing is sent.
SwitchModeCommand(user_id) ==
    /\ CanHandleCommand
    /\ IF ~IsAdmin(user_id)
       THEN SendOrRaise("switch_mode", user_id, NoArgument,
                        CommandMessage("MYSTICAL_POWERS_UNAVAILABLE"))
       ELSE Answer("switch_mode", user_id, NoArgument, <<>>, TRUE)
    /\ UNCHANGED <<host, run, now, advances, bot_settings, user_cooldowns, request_log,
                   yandex_gpt, update_queue, sess, sent>>

TicksPerHour == TicksPerDay \div HoursPerDay

\* A slip of database.py:228-235: records stamped exactly at the cutoff go too.
CleanupThroughCutoff(hours, ok) ==
    LET cutoff_time == now - hours * TicksPerHour
        kept == SelectSeq(request_log, LAMBDA row : ~(row.timestamp <= cutoff_time))
    IN  IF ok
        THEN <<{r \in user_cooldowns : ~(r.last_request <= cutoff_time)}, kept>>
        ELSE <<user_cooldowns, request_log>>

\* database.py:223-239 cleanup_old_records: <<user_cooldowns, request_log>>
\* afterwards. Both DELETEs are committed together; an error is logged and
\* swallowed and nothing is deleted.
CleanupOldRecords(hours, ok) ==
    LET cutoff_time == now - hours * TicksPerHour
        kept == SelectSeq(request_log, LAMBDA row : ~(row.timestamp < cutoff_time))
    IN  IF ok
        THEN <<{r \in user_cooldowns : ~(r.last_request < cutoff_time)}, kept>>
        ELSE <<user_cooldowns, request_log>>

\* The age arguments of a cleanup: the default of 24 hours, or one hour.
CleanupHours == {1, HoursPerDay}

\* A call of db.cleanup_old_records(hours). No handler of bot.py makes it; it
\* is the store's maintenance operation, called between two handlers and
\* recorded like a command.
Cleanup(hours) ==
    /\ CanHandleCommand
    /\ \E ok \in BOOLEAN :
        /\ ok \/ StoreMayFail
        /\ user_cooldowns' = CleanupOldRecords(hours, ok)[1]
        /\ request_log' = CleanupOldRecords(hours, ok)[2]
    /\ Answer("cleanup", 0, [given |-> TRUE, numeric |-> TRUE, value |-> hours],
              <<>>, FALSE)
    /\ UNCHANGED <<host, run, now, advances, bot_settings, yandex_gpt, update_queue,
                   sess, sent>>

\* The process is stopped at any moment and started again: what it held in
\* memory is gone, bot.py:59 constructs Database, whose init runs over the
\* file (database.py:14), and bot.py:61-66 constructs the client anew. A start
\* is recorded like a command.
Restart ==
    /\ reply.number < MaxCommands
    /\ bot_settings' = DatabaseInit(bot_settings)
    /\ yandex_gpt' \in {"client", "None"}
    /\ update_queue' = <<>>
    /\ sess' = [s \in Sessions |-> NoSession]
    /\ sent' = [s \in Sessions |-> NothingSent]
    /\ reply' = [NoReply EXCEPT !.number = reply.number + 1, !.command = "restart"]
    /\ UNCHANGED <<host, run, now, advances, user_cooldowns, request_log>>

\* ------------------------------------------------ processes and the lock
\* The process b moves on; nothing else on the host changes.
BotStep(b, process) == host' = [host EXCEPT !.bot[b] = process]

\* Some process other than b holds the flock on the file inode.
LockedByOther(b, inode) ==
    \E c \in Bots \ {b} : host.bot[c].locked /\ host.bot[c].lock_fd = inode

\* A file that neither the path nor an open descriptor names.
FreshInode ==
    CHOOSE i \in Inodes :
        /\ i # host.lock_file
        /\ \A b \in Bots : host.bot[b].lock_fd # i
        /\ \A j \in Inodes :
              (j # host.lock_file /\ \A b \in Bots : host.bot[b].lock_fd # j) => i <= j

\* python app/bot.py is started by hand: run_bot, TarotBot.start (bot.py:577-599).
StartDirectly(b) ==
    /\ host.bot[b].pc = "off"
    /\ BotStep(b, [BotOff EXCEPT !.pc = "start"])
    /\ UNCHANGED program

\* bot.py:75 open(self.lock_file, 'w'): the file at the path, created when
\* the path names none.
OpenLockFile == IF host.lock_file = NoFile THEN FreshInode ELSE host.lock_file

\* bot.py:518-523, 72-85 BotLock.acquire: open the file at the path, flock it
\* without blocking; when another process holds the flock, close and return
\* False, and TarotBot.start returns.
Acquire(b) ==
    /\ host.bot[b].pc = "start"
    /\ host' = [host EXCEPT
                   !.lock_file = OpenLockFile,
                   !.bot[b] = IF LockedByOther(b, OpenLockFile)
                              THEN [BotOff EXCEPT !.pc = "returned"]
                              ELSE [pc |-> "initialize", running |-> FALSE,
                                    lock_fd |-> OpenLockFile, locked |-> TRUE]]
    /\ UNCHANGED program

\* bot.py:525-539: self.initialize(), application.initialize(), start(),
\* start_polling(). When one of them raises, self.running is False (not yet
\* set at bot.py:530, or reset at bot.py:545), so TarotBot.stop, called at
\* bot.py:556, does nothing (bot.py:560) and start returns.
Initialize(b) ==
    /\ host.bot[b].pc = "initialize"
    /\ \/ BotStep(b, [host.bot[b] EXCEPT !.pc = "polling", !.running = TRUE])
       \/ BotStep(b, [host.bot[b] EXCEPT !.pc = "returned", !.running = FALSE])
    /\ UNCHANGED program

\* The polling process is interrupted (SIGINT): the sleep at bot.py:542 is
\* cancelled, the finally blocks run, TarotBot.stop finds self.running set and
\* releases the lock (bot.py:558-575): BotLock.release (bot.py:87-95) unlocks,
\* closes and unlinks whatever file the path names; start returns.
Interrupt(b) ==
    /\ host.bot[b].pc = "polling"
    /\ host' = [host EXCEPT !.lock_file = NoFile,
                            !.bot[b] = [BotOff EXCEPT !.pc = "returned"]]
    /\ UNCHANGED program

\* The process ends after start has returned (bot.py:591): the system closes
\* its descriptors, which drops a flock it still holds.
Exit(b) ==
    /\ host.bot[b].pc = "returned"
    /\ host' = [host EXCEPT !.bot[b] = BotOff,
                            !.child = IF @ = b THEN NoFile ELSE @]
    /\ UNCHANGED program

\* manage.py:44-52 cleanup_files at manage.py:56: bot.pid and bot.lock are
\* unlinked before the bot is launched.
ManagerCleanup ==
    /\ host.manager = "idle"
    /\ host' = [host EXCEPT !.manager = "cleaned", !.lock_file = NoFile,
                            !.pid_file = NoFile]
    /\ UNCHANGED program

\* manage.py:64-75: Popen of app/bot.py, and its pid written to bot.pid.
ManagerLaunch(b) ==
    /\ host.manager = "cleaned"
    /\ host.bot[b].pc = "off"
    /\ host' = [host EXCEPT !.manager = "monitor", !.child = b, !.pid_file = b,
                            !.bot[b] = [BotOff EXCEPT !.pc = "start"]]
    /\ UNCHANGED program

\* manage.py:80-84, 101-102: the child has ended; the monitor loop breaks and
\* cleanup_files runs again.
ManagerEnd ==
    /\ host.manager = "monitor"
    /\ host.child = NoFile
    /\ host' = [host EXCEPT !.manager = "idle", !.lock_file = NoFile,
                            !.pid_file = NoFile]
    /\ UNCHANGED program

\* manage.py:104-128 stop_bot: the process named in bot.pid gets SIGTERM (no
\* handler is installed in bot.py, so it ends at once and the system closes
\* its descriptors), then cleanup_files.
ManagerStop ==
    /\ host' = [host EXCEPT
                   !.lock_file = NoFile,
                   !.pid_file = NoFile,
                   !.child = IF @ = host.pid_file THEN NoFile ELSE @,
                   !.bot = [b \in Bots |-> IF b = host.pid_file THEN BotOff ELSE @[b]]]
    /\ UNCHANGED program

\* The steps of handle_message up to the interpretation block.
Reading(s) ==
    \/ Dispatch(s)
    \/ CheckCooldown(s)
    \/ CooldownNotice(s)
    \/ RecordStamp(s)
    \/ RecordActivity(s)
    \/ Draw(s)
    \/ ReadingStart(s)
    \/ CardImage(s)
    \/ CardCaption(s)
    \/ CardError(s)
    \/ Intro(s)
    \/ InterpStart(s)
    \/ TestCheck(s)
    \/ TestNotice(s)
    \/ Interpret(s)
    \/ LogSuccess(s)
    \/ SendInterpretation(s)
    \/ PowersUnavailable(s)

\* The steps of the two failure handlers, bot.py:442-472, which only a failing
\* send reaches.
Failing(s) ==
    \/ LogFailedInner(s)
    \/ ErrorInner(s)
    \/ LogFailedOuter(s)
    \/ ErrorOuter(s)

\* Two updates, a transport that delivers, a store whose calls may fail.
Next ==
    \/ Advance
    \/ ToggleTestMode
    \/ \E s \in Sessions, u \in Users, q \in Questions : Receive(s, u, q)
    \/ \E s \in Sessions : Reading(s)

Spec == Init /\ [][Next]_vars

\* The user_cooldowns tables an earlier run has left: any of the users may
\* have a row stamped 0.
StoredCooldowns ==
    { {[user_id |-> u, last_request |-> 0] : u \in stored} : stored \in SUBSET Users }

\* One update, a transport and a store whose calls may fail, over the store as
\* an earlier run of the process left it: a user may have a cooldown row.
InitSession ==
    /\ run = [updates |-> 1, transport |-> "flaky", store |-> "flaky"]
    /\ bot_settings = [cooldown_minutes |-> DefaultCooldownMinutes, test_mode |-> "false"]
    /\ user_cooldowns \in StoredCooldowns
    /\ now = 0
    /\ InitProcess

NextSession ==
    \/ Advance
    \/ ToggleTestMode
    \/ \E s \in Sessions, u \in Users, q \in Questions : Receive(s, u, q)
    \/ \E s \in Sessions : Reading(s) \/ Failing(s)

SpecSession == InitSession /\ [][NextSession]_vars

\* One update over a transport that delivers; the store is healthy or its
\* calls may fail; the interpretation client may be missing and the service
\* may fail.
InitReading ==
    /\ run \in [updates : {1}, transport : {"reliable"}, store : {"healthy", "flaky"}]
    /\ bot_settings = [cooldown_minutes |-> DefaultCooldownMinutes, test_mode |-> "false"]
    /\ user_cooldowns \in StoredCooldowns
    /\ now = 0
    /\ InitProcess

SpecReading == InitReading /\ [][Next]_vars

\* The steps of a handler that the event loop takes by itself: sends over a
\* transport that delivers, the draw, the return.
Scheduled(s) ==
    \/ Dispatch(s)
    \/ CooldownNotice(s)
    \/ RecordStamp(s)
    \/ Draw(s)
    \/ ReadingStart(s)
    \/ CardImage(s)
    \/ CardCaption(s)
    \/ CardError(s)
    \/ Intro(s)
    \/ InterpStart(s)
    \/ TestNotice(s)
    \/ SendInterpretation(s)
    \/ PowersUnavailable(s)

\* One reading as the event loop schedules it. The handler awaits the store
\* (database.py: aiosqlite calls, no timeout given) and the interpretation
\* service (yandex_gpt.py:66 self.model.run(prompt), no timeout given): the
\* steps CheckCooldown, RecordActivity, TestCheck, Interpret and LogSuccess
\* are taken when the call answers, which nothing in the code enforces, so
\* only the scheduled steps are fair.
SpecAwait ==
    /\ InitReading
    /\ [][Next]_vars
    /\ WF_vars(\E s \in Sessions : Scheduled(s))

\* The machine from the moment nothing runs: bots are started by hand and by
\* manage.py start, stopped by an interrupt and by manage.py stop (restart is
\* stop, then start). The data of the processes stays as Init has it.
InitLock ==
    /\ run = [updates |-> 2, transport |-> "reliable", store |-> "flaky"]
    /\ bot_settings = [cooldown_minutes |-> DefaultCooldownMinutes, test_mode |-> "false"]
    /\ user_cooldowns = {}
    /\ now = 0
    /\ advances = 0
    /\ request_log = <<>>
    /\ yandex_gpt = "client"
    /\ update_queue = <<>>
    /\ sess = [s \in Sessions |-> NoSession]
    /\ sent = [s \in Sessions |-> NothingSent]
    /\ reply = NoReply
    /\ host = HostDown

NextLock ==
    \/ \E b \in Bots :
          StartDirectly(b) \/ Acquire(b) \/ Initialize(b) \/ Interrupt(b) \/ Exit(b)
    \/ ManagerCleanup
    \/ \E b \in Bots : ManagerLaunch(b)
    \/ ManagerEnd
    \/ ManagerStop

SpecLock == InitLock /\ [][NextLock]_vars

\* The rows an earlier run has left in request_log: none, or a reading of each
\* user at time 0, the second one failed.
StoredLogs ==
    { <<>>,
      << [update |-> 0, user_id |-> 1, username |-> "admin1", question |-> "q1",
          cards |-> JoinCards(<<<<"Shut">>, <<"Mag">>, <<"Verkhovnaya", "Zhritsa">>>>),
          timestamp |-> 0, success |-> TRUE],
         [update |-> 0, user_id |-> 2, username |-> "No username",
          question |-> "q2", cards |-> <<>>,
          timestamp |-> 0, success |-> FALSE] >> }

\* The commands, with one update that runs up to the cooldown check, over a
\* store an earlier run has left; transport and store healthy or failing.
InitCommands ==
    /\ run \in [updates : {1}, transport : {"reliable", "flaky"},
                 store : {"healthy", "flaky"}]
    /\ bot_settings = [cooldown_minutes |-> DefaultCooldownMinutes, test_mode |-> "false"]
    /\ user_cooldowns \in StoredCooldowns
    /\ now = 0
    /\ advances = 0
    /\ request_log \in StoredLogs
    /\ yandex_gpt = "client"
    /\ update_queue = <<>>
    /\ sess = [s \in Sessions |-> NoSession]
    /\ sent = [s \in Sessions |-> NothingSent]
    /\ reply = NoReply
    /\ host = Serving

NextCommands ==
    \/ Advance
    \/ ToggleTestMode
    \/ \E u \in Users, arg \in CommandArgs : StatsCommand(u, arg)
    \/ \E u \in Users, arg \in CommandArgs : SetCooldownCommand(u, arg)
    \/ \E u \in Users : SwitchModeCommand(u)
    \/ \E s \in Sessions, u \in Users, q \in Questions : Receive(s, u, q)
    \/ \E s \in Sessions : Dispatch(s) \/ CheckCooldown(s)

SpecCommands == InitCommands /\ [][NextCommands]_vars

\* Everyone who has used the bot.
AllUsers == Users \cup FormerUsers

\* The row of a reading of user_id at time timestamp, as an earlier run has
\* logged it: the admin asked q1, the others q2.
StoredRow(user_id, timestamp, success) ==
    [update |-> 0, user_id |-> user_id, username |-> Username(user_id),
     question |-> IF user_id \in ADMIN_USER_IDS THEN "q1" ELSE "q2",
     cards |-> <<>>, timestamp |-> timestamp, success |-> success]

\* The rows of the users of readers, by user id, all stamped timestamp; the
\* readings of the users in failed have failed.
RECURSIVE StoredBatch(_, _, _)
StoredBatch(readers, timestamp, failed) ==
    IF readers = {} THEN <<>>
    ELSE LET u == CHOOSE x \in readers : \A y \in readers : x <= y
         IN  <<StoredRow(u, timestamp, u \notin failed)>>
                 \o StoredBatch(readers \ {u}, timestamp, failed)

\* The store after a day of use: any of the users has made a reading at time
\* 0 and any of them one a day later; the cooldown row of a user is stamped
\* with the user's last reading.
StoredAfterADay(early, late, failed) ==
    [ request_log |-> StoredBatch(early, 0, failed)
                          \o StoredBatch(late, HoursPerDay * TicksPerHour, failed),
      user_cooldowns |->
          {[user_id |-> u,
            last_request |-> IF u \in late THEN HoursPerDay * TicksPerHour ELSE 0] :
           u \in early \cup late} ]

\* The statistics and the cleanup over a store a day of use has left, seen at
\* the end of that day and a day later; the store is healthy or may fail.
InitStore ==
    /\ run \in [updates : {1}, transport : {"reliable"}, store : {"healthy", "flaky"}]
    /\ bot_settings = [cooldown_minutes |-> DefaultCooldownMinutes, test_mode |-> "false"]
    /\ \E early \in SUBSET AllUsers, late \in SUBSET AllUsers,
          failed \in SUBSET AllUsers :
          /\ request_log = StoredAfterADay(early, late, failed).request_log
          /\ user_cooldowns = StoredAfterADay(early, late, failed).user_cooldowns
    /\ now = HoursPerDay * TicksPerHour
    /\ advances = 0
    /\ yandex_gpt = "client"
    /\ update_queue = <<>>
    /\ sess = [s \in Sessions |-> NoSession]
    /\ sent = [s \in Sessions |-> NothingSent]
    /\ reply = NoReply
    /\ host = Serving

NextStore ==
    \/ Advance
    \/ \E u \in Users, arg \in CommandArgs : StatsCommand(u, arg)
    \/ \E hours \in CleanupHours : Cleanup(hours)

SpecStore == InitStore /\ [][NextStore]_vars

\* The cooldown durations a file may hold: the first minutes, and the default.
CooldownSettings == (1..MaxCooldownMinutes) \cup {DefaultCooldownMinutes}

\* The bot_settings a database file may hold before Database.init runs over
\* it: of each setting no row (a new file, a file of a version without the
\* setting) or a stored value.
SettingsFiles ==
    [cooldown_minutes : {NoRow} \cup CooldownSettings,
     test_mode : {NoFlag, "false", "true"}]

\* Starts of the process over a database file of any settings, cooldown
\* records and log; one update per run, up to the recording of its activity.
InitRestart ==
    /\ run = [updates |-> 1, transport |-> "reliable", store |-> "healthy"]
    /\ \E file \in SettingsFiles : bot_settings = DatabaseInit(file)
    /\ user_cooldowns \in StoredCooldowns
    /\ request_log \in StoredLogs
    /\ now = 0
    /\ advances = 0
    /\ yandex_gpt \in {"client", "None"}
    /\ update_queue = <<>>
    /\ sess = [s \in Sessions |-> NoSession]
    /\ sent = [s \in Sessions |-> NothingSent]
    /\ reply = NoReply
    /\ host = Serving

NextRestart ==
    \/ Restart
    \/ Advance
    \/ ToggleTestMode
    \/ \E s \in Sessions, u \in Users, q \in Questions : Receive(s, u, q)
    \/ \E s \in Sessions :
          Dispatch(s) \/ CheckCooldown(s) \/ CooldownNotice(s)
              \/ RecordStamp(s) \/ RecordActivity(s)

SpecRestart == InitRestart /\ [][NextRestart]_vars

\* The cooldown check as a function of its inputs: a healthy store with any
\* cooldown setting and any last request, seen at any time of the first
\* minutes; one update runs up to the check.
InitCooldown ==
    /\ run = [updates |-> 1, transport |-> "reliable", store |-> "healthy"]
    /\ bot_settings \in [cooldown_minutes : CooldownSettings, test_mode : {"false"}]
    /\ user_cooldowns \in StoredCooldowns
    /\ now \in 0..(MaxCooldownMinutes * TicksPerMinute + TicksPerSecond)
    /\ InitProcess

NextCooldown ==
    \/ \E s \in Sessions, u \in Users, q \in Questions : Receive(s, u, q)
    \/ \E s \in Sessions : Dispatch(s) \/ CheckCooldown(s) \/ CooldownNotice(s)

SpecCooldown == InitCooldown /\ [][NextCooldown]_vars

\* ----------------------------------------------------------- properties
\* The configured cooldown, in ticks.
CooldownTicks == bot_settings.cooldown_minutes * TicksPerMinute

\* The handler of s has checked the cooldown, and the check let it pass.
Checked(s) == sess[s].pc \notin {"absent", "queued", "check"}
Accepted(s) == Checked(s) /\ ~sess[s].is_cooldown
Rejected(s) == Checked(s) /\ sess[s].is_cooldown
Terminated(s) == sess[s].pc \in {"done", "raised"}

\* The rows of request_log that the handler of s has inserted.
RowsOf(s) == {i \in 1..Len(request_log) : request_log[i].update = s}

Abs(x) == IF x >= 0 THEN x ELSE -x

\* C1: two accepted requests of one user lie at least the configured cooldown
\* apart, whatever calls of the store fail.
C1_MinimumInterval ==
    \A s, r \in Sessions :
        (s # r /\ Accepted(s) /\ Accepted(r) /\ sess[s].user_id = sess[r].user_id)
            => Abs(sess[s].check_time - sess[r].check_time) >= CooldownTicks

\* The handler of s has passed the cooldown check and has not yet recorded the
\* activity.
PassedUnrecorded(s) == sess[s].pc \in {"record", "record_write"}

\* C2: no two handlers for one user are at the same time past the cooldown
\* check and before the record of the activity; of two handlers that run at
\* once at most one is accepted.
C2_NoCheckRecordRace ==
    \A s, r \in Sessions :
        (s # r /\ sess[s].user_id = sess[r].user_id)
            => /\ ~(PassedUnrecorded(s) /\ PassedUnrecorded(r))
               /\ (Running(s) /\ Running(r)) => ~(Accepted(s) /\ Accepted(r))

\* A second update of the user waits in the queue while the handler of the
\* first one stands between the check and the record.
C2_Witness ==
    \E s, r \in Sessions :
        /\ s # r
        /\ sess[s].user_id = sess[r].user_id
        /\ PassedUnrecorded(s)
        /\ sess[r].pc = "queued"

\* ceil(a / b) for a >= 0, b > 0.
CeilDiv(a, b) == (a + b - 1) \div b

\* C3: with a last activity d ago and a cooldown C the check allows the request
\* iff d >= C, and else reports ceil((C - d) / 1 minute) >= 1 minutes, also when
\* C - d is not a whole number of seconds.
C3_RemainingIsCeiling ==
    \A s \in Sessions :
        (Checked(s) /\ LastRequest(sess[s].user_id) # NoRow) =>
            LET d == sess[s].check_time - LastRequest(sess[s].user_id)
            IN  IF d >= CooldownTicks
                THEN ~sess[s].is_cooldown
                ELSE /\ sess[s].is_cooldown
                     /\ sess[s].remaining_minutes = CeilDiv(CooldownTicks - d, TicksPerMinute)
                     /\ sess[s].remaining_minutes >= 1

\* C4: a user without a cooldown record is allowed, with zero remaining time,
\* under any cooldown setting.
C4_NoRecordAllowed ==
    \A s \in Sessions :
        (Checked(s) /\ LastRequest(sess[s].user_id) = NoRow)
            => ~sess[s].is_cooldown /\ sess[s].remaining_minutes = 0

\* A user without a record has been checked under a setting other than the
\* default one.
C4_Witness ==
    \E s \in Sessions :
        /\ Checked(s)
        /\ LastRequest(sess[s].user_id) = NoRow
        /\ bot_settings.cooldown_minutes # DefaultCooldownMinutes
        /\ sess[s].check_time > 0

\* C5: an accepted session that has ended has appended exactly one row to
\* request_log.
C5_ExactlyOneLogRow ==
    \A s \in Sessions :
        (Terminated(s) /\ ~sess[s].is_cooldown) => Cardinality(RowsOf(s)) = 1

\* C6: a rejected session appends no row to request_log, also when the send of
\* the cooldown notice fails.
C6_RejectedLogsNothing ==
    \A s \in Sessions : Rejected(s) => RowsOf(s) = {}

\* C7: once an accepted session is past the record of the activity (it draws,
\* narrates or handles a failure), the user's row holds the session's timestamp.
C7_ActivityStoredBeforeDraw ==
    \A s \in Sessions :
        (Running(s) /\ Accepted(s) /\ ~PassedUnrecorded(s))
            => /\ LastRequest(sess[s].user_id) # NoRow
               /\ LastRequest(sess[s].user_id) >= sess[s].check_time

\* The positions of the handler whose step is a send to the user.
SendPositions ==
    { "cooldown_notice", "reading_start", "card_image", "card_caption",
      "card_error", "intro", "interp_start", "test_notice",
      "send_interpretation", "powers_unavailable", "error_inner", "error_outer" }

\* C8: an accepted session that has appended its row to request_log sends
\* nothing more to the user: the row comes after all output of the session.
C8_LogAfterAllOutput ==
    [][\A s \in Sessions :
          (Accepted(s) /\ RowsOf(s) # {} /\ sess[s].pc \in SendPositions)
              => sess'[s] = sess[s]]_vars

\* C9: a session that has gone through draw, narration and interpretation (the
\* test mode path and a failed interpretation included) ends with the closing
\* notice as its last message.
C9_ClosingNoticeLast ==
    \A s \in Sessions :
        (sess[s].pc = "done" /\ ~sess[s].is_cooldown
            /\ sent[s].kind \notin {"NONE", "ERROR_MESSAGE"})
            => sent[s].kind = "CLOSING_MESSAGE"

\* The names a stored cards text holds: the text cut at its commas.
RECURSIVE SplitCards(_, _)
SplitCards(text, name) ==
    IF text = <<>> THEN <<name>>
    ELSE IF Head(text) = "," THEN <<name>> \o SplitCards(Tail(text), <<>>)
    ELSE SplitCards(Tail(text), Append(name, Head(text)))

CardsOfRow(row) == IF row.cards = <<>> THEN <<>> ELSE SplitCards(row.cards, <<>>)

\* C10: a success row holds the three cards its session drew, in draw order; a
\* failure row holds an empty cards text; every row holds the user id and the
\* question of its session.
C10_RowContent ==
    \A i \in 1..Len(request_log) :
        LET row == request_log[i]
            s == row.update
        IN  /\ row.user_id = sess[s].user_id
            /\ row.question = sess[s].question
            /\ row.success =>
                  /\ Len(CardsOfRow(row)) = DrawSize
                  /\ \A k \in 1..DrawSize : CardsOfRow(row)[k] \in TAROT_CARDS
                  /\ Running(s) => CardsOfRow(row) = sess[s].cards
            /\ ~row.success => row.cards = <<>>

\* A session has just written its success row, with a card of two words among
\* its three cards.
C10_Witness ==
    \E s \in Sessions :
        /\ sess[s].pc = "send_interpretation"
        /\ \E i \in RowsOf(s) :
              /\ request_log[i].success
              /\ Len(request_log[i].cards) > 2 * DrawSize - 1
              /\ CardsOfRow(request_log[i]) = sess[s].cards

\* C11: when the interpretation call has failed, no message presented as the
\* interpretation carries what the failed call gave back; the user gets the
\* "powers unavailable" notice instead.
C11_FailureNotice ==
    \A s \in Sessions :
        sent[s].kind = "INTERPRETATION" => sent[s].text # ServiceErrorText

\* C12: with a healthy store and a delivering transport, an accepted session
\* that ended at the interpretation step (with the interpretation or with the
\* "powers unavailable" notice) has logged a success row with its three cards.
C12_FailureLogsSuccess ==
    \A s \in Sessions :
        ( /\ run.store = "healthy"
          /\ run.transport = "reliable"
          /\ sess[s].pc = "done"
          /\ Accepted(s)
          /\ sent[s].kind \in {"INTERPRETATION", "MYSTICAL_POWERS_UNAVAILABLE"} )
            => \E i \in RowsOf(s) :
                  /\ request_log[i].success
                  /\ Len(CardsOfRow(request_log[i])) = DrawSize

\* C13: no exception leaves handle_message, whatever fails.
C13_NoEscape ==
    \A s \in Sessions : sess[s].pc # "raised"

\* The fixed in-character messages of a session.
InCharacterKinds ==
    { "NONE", "COOLDOWN", "READING_START", "PHOTO", "CAPTION",
      "CAPTION_IMAGE_NOT_FOUND", "SECOND_CARD_INTRO", "THIRD_CARD_INTRO",
      "INTERPRETATION_START", "TEST_MODE_NOTICE", "INTERPRETATION",
      "MYSTICAL_POWERS_UNAVAILABLE", "ERROR_MESSAGE" }

\* C14: every message of a session is one of the fixed in-character texts; none
\* carries the text of an exception.
C14_NoRawErrors ==
    \A s \in Sessions : sent[s].kind \in InCharacterKinds

\* The handler of s waits at a pacing delay (asyncio.sleep) or for the
\* interpretation call.
Suspended(s) ==
    sess[s].pc \in {"card_image", "intro", "interp_start", "test_check", "interpret"}

\* C15: while the session of one user is suspended, the next update, of another
\* user, can be taken up by its handler.
C15_SessionsIndependent ==
    \A s, r \in Sessions :
        ( /\ Suspended(s)
          /\ update_queue # <<>>
          /\ r = Head(update_queue)
          /\ sess[r].user_id # sess[s].user_id )
            => CanDispatch

\* The captions of the cards.
CaptionKinds == {"PHOTO", "CAPTION", "CAPTION_IMAGE_NOT_FOUND", "CAPTION_ERROR_TEXT"}

\* C16: a session's draw is three different cards of the catalog; the card
\* narrated in role k (past, present, future) is the k-th drawn, and the
\* interpreter gets the first, second and third card as past, present, future.
C16_DrawAndRoles ==
    \A s \in Sessions :
        sess[s].cards # <<>> =>
            /\ Len(sess[s].cards) = DrawSize
            /\ \A k \in 1..DrawSize : sess[s].cards[k] \in TAROT_CARDS
            /\ \A j, k \in 1..DrawSize : j # k => sess[s].cards[j] # sess[s].cards[k]
            /\ sent[s].kind \in CaptionKinds =>
                  /\ sent[s].role \in 1..DrawSize
                  /\ sent[s].card = sess[s].cards[sent[s].role]
            /\ sess[s].calls > 0 =>
                  /\ sess[s].prompt.past = sess[s].cards[1]
                  /\ sess[s].prompt.present = sess[s].cards[2]
                  /\ sess[s].prompt.future = sess[s].cards[3]

\* The third card has been narrated as the future and the interpreter has been
\* called with the three cards.
C16_Witness ==
    \E s \in Sessions :
        /\ sess[s].pc = "log_success"
        /\ sess[s].calls = 1
        /\ sess[s].prompt.future = sess[s].cards[DrawSize]
        /\ sess[s].prompt.past # sess[s].prompt.future

\* The handler of s decides at bot.py:408-410 in this step.
TestDecision(s) == sess[s].pc = "test_check" /\ sess'[s].pc # "test_check"

\* The stored flag is set and the requester is an administrator.
TestModeForAdmin(s) ==
    bot_settings.test_mode = "true" /\ sess[s].user_id \in ADMIN_USER_IDS

\* In every session the interpreter is called at most once, not at all on the
\* test mode path and once before the success row.
SingleCall ==
    \A s \in Sessions :
        /\ sess[s].calls <= 1
        /\ sess[s].pc = "test_notice" => sess[s].calls = 0
        /\ sess[s].pc \in {"log_success", "send_interpretation"} => sess[s].calls = 1

\* C17 as stated: at most one call, and the call is skipped for the test mode
\* notice exactly when the flag is set and the requester is an administrator.
C17_SkipIffFlagAndAdmin ==
    /\ []SingleCall
    /\ [][\A s \in Sessions :
            TestDecision(s) => (sess'[s].pc = "test_notice" <=> TestModeForAdmin(s))]_vars

\* C17 as amended: at most one call; the call is skipped only when the flag is
\* set and the requester is an administrator, and always then unless the read
\* of the flag fails (a failed read reads as "not test mode").
C17_SkipIffReadAsTest ==
    /\ []SingleCall
    /\ [][\A s \in Sessions :
            TestDecision(s) =>
                /\ sess'[s].pc = "test_notice" => TestModeForAdmin(s)
                /\ sess'[s].pc = "interpret" => (~TestModeForAdmin(s) \/ StoreMayFail)
                /\ sess'[s].pc \in {"test_notice", "interpret"}]_vars

\* An administrator's session is on the test mode path without a call, with a
\* healthy store.
C17_Witness ==
    \E s \in Sessions :
        /\ sess[s].pc = "test_notice"
        /\ sess[s].calls = 0
        /\ sess[s].is_test
        /\ run.store = "healthy"

\* A command has been handled in this step.
CommandStep == reply'.number # reply.number

\* C18: after an administrator's set-cooldown with m >= 1 over a healthy store
\* the answer reports success and the stored cooldown is m, which every
\* cooldown check made afterwards applies.
C18_SetCooldownTakesEffect ==
    ( /\ reply.command = "set_cooldown"
      /\ reply.user_id \in ADMIN_USER_IDS
      /\ IsDigit(reply.arg)
      /\ reply.arg.value >= 1
      /\ run.store = "healthy" )
        => /\ reply.messages[1].kind = "COOLDOWN_SET"
           /\ reply.messages[1].minutes = reply.arg.value
           /\ bot_settings.cooldown_minutes = reply.arg.value
           /\ \A s \in Sessions :
                 (sess[s].pc = "check" /\ LastRequest(sess[s].user_id) # NoRow)
                     => (now - LastRequest(sess[s].user_id)
                             >= reply.arg.value * TicksPerMinute
                           => ~IsOnCooldown(GetRemainingCooldownMinutes(
                                  GetCooldownMinutes(TRUE),
                                  LastRequest(sess[s].user_id), now, TRUE))[1])

\* C19: an administrator's toggle command stores the negation of the test mode
\* flag and reports the new mode to the caller.
C19_ToggleNegates ==
    [][(CommandStep /\ reply'.command = "switch_mode"
           /\ reply'.user_id \in ADMIN_USER_IDS)
          => /\ bot_settings'.test_mode # bot_settings.test_mode
             /\ bot_settings'.test_mode \in {"true", "false"}
             /\ ~reply'.raised
             /\ reply'.messages # <<>>]_vars

\* What a command answers to a requester who is no administrator.
Denial(command) ==
    CASE command = "stats" -> "STATS_DENIED"
      [] command = "set_cooldown" -> "SET_COOLDOWN_DENIED"
      [] command = "switch_mode" -> "MYSTICAL_POWERS_UNAVAILABLE"
      [] OTHER -> "NONE"

\* C20: a stats, set-cooldown or toggle command of a requester outside the
\* allow-list changes nothing in the store and answers with the denial and
\* nothing else (after a failed send of the denial, stats_command tries its
\* fixed error text); no aggregate is part of any message.
C20_AdminGating ==
    [][(CommandStep /\ reply'.user_id \notin ADMIN_USER_IDS)
          => /\ UNCHANGED <<bot_settings, user_cooldowns, request_log>>
             /\ reply'.messages # <<>>
             /\ reply'.messages[1].kind = Denial(reply'.command)
             /\ \A i \in 1..Len(reply'.messages) :
                   /\ reply'.messages[i].stats = NoStats
                   /\ i > 1 => /\ reply'.messages[i].kind = "STATS_ERROR"
                               /\ ~reply'.messages[1].ok]_vars

\* A requester outside the allow-list has asked for the stats of a log that
\* holds rows and has got the denial.
C20_Witness ==
    /\ reply.command = "stats"
    /\ reply.user_id \notin ADMIN_USER_IDS
    /\ request_log # <<>>
    /\ reply.messages[1].kind = "STATS_DENIED"
    /\ reply.messages[1].ok

\* The first argument of a set-cooldown request is missing, is not a number,
\* or is a number below 1.
BadCooldownArgument(arg) == ~arg.given \/ ~arg.numeric \/ arg.value < 1

\* C21: the stored cooldown duration is at least 1 minute in every state, and
\* a set-cooldown request whose argument is missing, non-numeric or less than 1
\* is answered with a refusal (no rights, usage, too small) and leaves
\* bot_settings as it was.
C21_CooldownFloor ==
    /\ [](bot_settings.cooldown_minutes >= 1)
    /\ [][(CommandStep /\ reply'.command = "set_cooldown"
              /\ BadCooldownArgument(reply'.arg))
            => /\ bot_settings' = bot_settings
               /\ reply'.messages[1].kind \in
                      {"SET_COOLDOWN_DENIED", "SET_COOLDOWN_USAGE",
                       "SET_COOLDOWN_TOO_SMALL"}]_vars

\* An administrator has asked for a cooldown of 0 minutes and was told that
\* this is too small.
C21_Witness ==
    /\ reply.command = "set_cooldown"
    /\ reply.user_id \in ADMIN_USER_IDS
    /\ reply.arg.numeric /\ reply.arg.value = 0
    /\ reply.messages[1].kind = "SET_COOLDOWN_TOO_SMALL"
    /\ bot_settings.cooldown_minutes >= 1

\* An administrator's /stats has been answered in this step, over a healthy
\* store.
StatsAnswered ==
    /\ CommandStep
    /\ reply'.command = "stats"
    /\ reply'.user_id \in ADMIN_USER_IDS
    /\ run.store = "healthy"

\* C22: when no log entry lies in the window, the aggregate the administrator
\* gets reports total, unique users, successes and failures as the number 0
\* and both top lists as empty.
C22_EmptyStats ==
    [][(StatsAnswered /\ InWindow(StatsDays(reply'.arg)) = {})
        => LET stats == reply'.messages[1].stats
           IN  /\ reply'.messages[1].kind = "STATS"
               /\ stats.total_requests = 0
               /\ stats.unique_users = 0
               /\ stats.successful_requests = 0
               /\ stats.failed_requests = 0
               /\ stats.top_users = <<>>
               /\ stats.top_questions = <<>>]_vars

\* C23: the aggregate's total is the number of log entries inside the trailing
\* window, its unique users the number of distinct user ids among them, and
\* its successes and failures are numbers that add up to the total.
C23_StatsCounts ==
    [][StatsAnswered
        => LET stats == reply'.messages[1].stats
               rows == InWindow(StatsDays(reply'.arg))
           IN  /\ reply'.messages[1].kind = "STATS"
               /\ stats.total_requests = Cardinality(rows)
               /\ stats.unique_users =
                      Cardinality({request_log[i].user_id : i \in rows})
               /\ stats.successful_requests # Null
               /\ stats.failed_requests # Null
               /\ stats.successful_requests + stats.failed_requests
                      = stats.total_requests]_vars

\* The in-window log entries of user_id.
EntriesOf(user_id, rows) == {i \in rows : request_log[i].user_id = user_id}

\* C24: the top-users list has at most 5 entries, one for each distinct user
\* id with entries in the window (as far as 5 go), in order of non-increasing
\* count, and the count of an entry is the number of in-window entries of one
\* user.
C24_TopUsers ==
    [][StatsAnswered
        => LET stats == reply'.messages[1].stats
               top == stats.top_users
               rows == InWindow(StatsDays(reply'.arg))
               ids == {request_log[i].user_id : i \in rows}
           IN  /\ reply'.messages[1].kind = "STATS"
               /\ Len(top) = Min(TopLimit, Cardinality(ids))
               /\ \A i, j \in 1..Len(top) : i < j => top[i][2] >= top[j][2]
               /\ \E owner \in [1..Len(top) -> ids] :
                     /\ \A i, j \in 1..Len(top) : i # j => owner[i] # owner[j]
                     /\ \A i \in 1..Len(top) :
                           top[i][2] = Cardinality(EntriesOf(owner[i], rows))]_vars

\* The rows of log stamped before cutoff, and those stamped at or after it.
OlderEntries(log, cutoff) == SelectSeq(log, LAMBDA row : row.timestamp < cutoff)
NewerEntries(log, cutoff) == SelectSeq(log, LAMBDA row : row.timestamp >= cutoff)

\* C25: a cleanup with age h leaves every cooldown record and every log entry
\* stamped at or after now - h where it was, adds nothing and leaves the
\* settings alone; over a healthy store it leaves no cooldown record and no log
\* entry older than now - h, and when the store fails it deletes nothing.
C25_Purge ==
    [][(CommandStep /\ reply'.command = "cleanup")
        => LET cutoff == now - reply'.arg.value * TicksPerHour
           IN  /\ bot_settings' = bot_settings
               /\ NewerEntries(request_log', cutoff) = NewerEntries(request_log, cutoff)
               /\ {r \in user_cooldowns' : r.last_request >= cutoff}
                      = {r \in user_cooldowns : r.last_request >= cutoff}
               /\ user_cooldowns' \subseteq user_cooldowns
               /\ \/ /\ OlderEntries(request_log', cutoff) = <<>>
                     /\ \A r \in user_cooldowns' : r.last_request >= cutoff
                  \/ /\ run.store # "healthy"
                     /\ request_log' = request_log
                     /\ user_cooldowns' = user_cooldowns]_vars

\* A cleanup with an age of one hour has run over a healthy store at the end
\* of the first day: the readings of that moment are still there, with their
\* cooldown records, and nothing older is.
C25_Witness ==
    /\ reply.command = "cleanup" /\ reply.number = 1 /\ reply.arg.value = 1
    /\ run.store = "healthy"
    /\ advances = 0
    /\ request_log # <<>>
    /\ user_cooldowns # {}
    /\ \A i \in 1..Len(request_log) : request_log[i].timestamp = now
    /\ \A r \in user_cooldowns : r.last_request = now

\* The cooldown records of user_id in table.
RecordsOf(user_id, table) == {r \in table : r.user_id = user_id}

\* The handler of s completes its update_last_request in this step.
RecordStep(s) == sess[s].pc = "record_write" /\ sess'[s].pc = "draw"

\* The handler of s is past its update_last_request.
Recorded(s) == Accepted(s) /\ ~PassedUnrecorded(s)

\* C26: no user ever has more than one cooldown record, and a recordActivity
\* of user U with timestamp t leaves the records of the other users as they
\* were and exactly one record of U, stamped t, also when U had a record and
\* when that record was stamped t already; when the write fails, the table is
\* as before.
C26_UpsertOnce ==
    /\ [](\A u \in Users : Cardinality(RecordsOf(u, user_cooldowns)) <= 1)
    /\ [][\A s \in Sessions :
            RecordStep(s) =>
                LET u == sess[s].user_id
                    t == sess[s].last_request
                IN  /\ \A v \in Users \ {u} :
                          RecordsOf(v, user_cooldowns') = RecordsOf(v, user_cooldowns)
                    /\ \/ RecordsOf(u, user_cooldowns')
                              = {[user_id |-> u, last_request |-> t]}
                       \/ /\ run.store # "healthy"
                          /\ user_cooldowns' = user_cooldowns]_vars

\* Two readings of one user have both recorded the activity at time 0 and the
\* table holds the one record of the user, stamped 0.
C26_Witness ==
    \E s1, s2 \in Sessions :
        /\ s1 # s2
        /\ sess[s1].user_id = sess[s2].user_id
        /\ Recorded(s1) /\ Recorded(s2)
        /\ advances = 0
        /\ user_cooldowns = {[user_id |-> sess[s1].user_id, last_request |-> 0]}

\* C27: the stored last-activity timestamp of a user never moves backwards: a
\* recordActivity, whose timestamp was taken before its write, leaves the
\* later of the stored timestamp and its own.
C27_LaterWins ==
    [][\A u \in Users :
          (LastRequest(u) # NoRow /\ LastRequest(u)' # NoRow)
              => LastRequest(u)' >= LastRequest(u)]_vars

\* A second reading of a user, checked a day after the first, has recorded
\* its activity over the record of the first.
C27_Witness ==
    \E s1, s2 \in Sessions :
        /\ sess[s1].user_id = sess[s2].user_id
        /\ Recorded(s1) /\ Recorded(s2)
        /\ sess[s1].check_time = 0
        /\ sess[s2].check_time > 0
        /\ LastRequest(sess[s2].user_id) = sess[s2].check_time

\* A message that closes the narration of a card: its caption, alone, with the
\* note of the missing image, or with the text of an error.
ClosesCard(m, role) ==
    /\ m.kind \in {"CAPTION", "CAPTION_IMAGE_NOT_FOUND", "CAPTION_ERROR_TEXT"}
    /\ m.role = role
    /\ m.ok

\* The message that opens the narration of the card of role: the start of the
\* reading, the intro of the second or of the third card.
OpensCard(m, role) ==
    /\ m.ok
    /\ m.kind = CASE role = 1 -> "READING_START"
                   [] role = 2 -> "SECOND_CARD_INTRO"
                   [] OTHER    -> "THIRD_CARD_INTRO"

\* Message m may come right after message p in the narration of a reading.
Follows(m, p) ==
    CASE m.kind \in {"PHOTO", "CAPTION_IMAGE_NOT_FOUND"} -> OpensCard(p, m.role)
      [] m.kind = "CAPTION" ->
            p.kind = "PHOTO" /\ p.ok /\ p.role = m.role /\ p.card = m.card
      [] m.kind = "CAPTION_ERROR_TEXT" ->
            \/ OpensCard(p, m.role)
            \/ /\ p.kind \in {"PHOTO", "CAPTION", "CAPTION_IMAGE_NOT_FOUND"}
               /\ ~p.ok /\ p.role = m.role /\ p.card = m.card
      [] m.kind = "SECOND_CARD_INTRO" -> ClosesCard(p, 1)
      [] m.kind = "THIRD_CARD_INTRO" -> ClosesCard(p, 2)
      [] m.kind = "INTERPRETATION_START" -> ClosesCard(p, DrawSize)
      [] m.kind \in {"INTERPRETATION", "TEST_MODE_NOTICE"} ->
            p.kind = "INTERPRETATION_START" /\ p.ok
      [] OTHER -> TRUE

\* C28: a reading is narrated in the order past card, intro of the second
\* card, present card, intro of the third card, future card, interpretation:
\* every message follows the delivered message of the step before it; the
\* image of a card (or the note that stands for it) comes before or with its
\* caption, and a card whose image is missing gets its caption and the reading
\* goes on to the next step.
C28_NarrationOrder ==
    [][\A s \in Sessions :
          (sent'[s] # sent[s] /\ sent'[s].kind # "NONE") =>
              /\ Follows(sent'[s], sent[s])
              /\ sent'[s].kind \in CaptionKinds =>
                    sent'[s].card = sess[s].cards[sent'[s].role]
              /\ (sent'[s].kind = "CAPTION_IMAGE_NOT_FOUND" /\ sent'[s].ok) =>
                    sess'[s].pc = IF sent'[s].role < DrawSize THEN "intro"
                                  ELSE "interp_start"]_vars

\* The interpretation of a reading has been delivered.
C28_Witness ==
    \E s \in Sessions :
        /\ sent[s].kind = "INTERPRETATION" /\ sent[s].ok
        /\ sess[s].pc = "done"

\* C29: a recordActivity whose write fails is observed by its caller: a
\* handler goes on from update_last_request to the draw only when the record
\* of its user, with the timestamp of the call, is in the table.
C29_WriteFailureSurfaced ==
    [][\A s \in Sessions :
          RecordStep(s) =>
              [user_id |-> sess[s].user_id, last_request |-> sess[s].last_request]
                  \in user_cooldowns']_vars

\* C30: whatever the store holds, a failed read answers with the default: the
\* cooldown setting reads as 1440 minutes, test mode as false, the cooldown
\* check as no activity (allowed, 0 minutes left) and the statistics as the
\* empty aggregate; no exception reaches the caller: the handler goes on from
\* the check, and /stats sends its error text only after a failed send.
C30_ReadsDegrade ==
    /\ []( /\ GetCooldownMinutes(FALSE) = 1440
           /\ IsTestMode(FALSE) = FALSE
           /\ \A u \in Users, settings_ok \in BOOLEAN :
                 IsOnCooldown(GetRemainingCooldownMinutes(
                     GetCooldownMinutes(settings_ok), LastRequest(u), now, FALSE))
                   = <<FALSE, 0>>
           /\ \A arg \in CommandArgs : GetUserStats(StatsDays(arg), FALSE) = {NoStats} )
    /\ [][ /\ \A s \in Sessions :
                (sess[s].pc = "check" /\ sess'[s].pc # "check")
                    => sess'[s].pc \in {"record", "cooldown_notice"}
           /\ (CommandStep /\ reply'.command = "stats")
                    => reply'.messages[1].kind # "STATS_ERROR" ]_vars

\* An administrator was told that the statistics are unavailable although the
\* log holds rows, and afterwards a user whose cooldown row is stamped now was
\* let pass by the check, while test mode is stored as on: both reads failed.
C30_Witness ==
    /\ reply.command = "stats"
    /\ reply.messages[1].kind = "STATS_UNAVAILABLE"
    /\ request_log # <<>>
    /\ bot_settings.test_mode = "true"
    /\ \E s \in Sessions :
          /\ Accepted(s)
          /\ sess[s].check_time = now
          /\ LastRequest(sess[s].user_id) = now

\* C31: the cooldown check, and every step of a request that the check has
\* rejected, leave the cooldown records and the settings as they are; a
\* cooldown record changes only in the update_last_request of a request that
\* the check has accepted.
C31_CheckReadOnly ==
    [][ /\ \A s \in Sessions :
             (sess'[s] # sess[s] /\ (sess[s].pc = "check" \/ Rejected(s)))
                 => /\ user_cooldowns' = user_cooldowns
                    /\ bot_settings' = bot_settings
        /\ user_cooldowns' # user_cooldowns
             => \E s \in Sessions : RecordStep(s) /\ Accepted(s) ]_vars

\* A request was rejected at the cooldown gate and has ended, notice
\* delivered; the record of its user is the one the check has read.
C31_Witness ==
    \E s \in Sessions :
        /\ Rejected(s) /\ sess[s].pc = "done"
        /\ sent[s].kind = "COOLDOWN" /\ sent[s].ok
        /\ user_cooldowns \in StoredCooldowns
        /\ LastRequest(sess[s].user_id) = 0

\* C32: both settings have a row in every state; a start of the process over
\* the file leaves the setting values, the cooldown records and the log as
\* they are; Database.init keeps every setting the file holds and writes 1440
\* minutes and false only where the file holds none.
C32_RestartKeepsStore ==
    /\ []( /\ bot_settings.cooldown_minutes # NoRow
           /\ bot_settings.test_mode # NoFlag
           /\ \A file \in SettingsFiles :
                 /\ DatabaseInit(file).cooldown_minutes =
                       IF file.cooldown_minutes = NoRow THEN 1440
                       ELSE file.cooldown_minutes
                 /\ DatabaseInit(file).test_mode =
                       IF file.test_mode = NoFlag THEN "false" ELSE file.test_mode )
    /\ [][(CommandStep /\ reply'.command = "restart")
            => /\ bot_settings' = bot_settings
               /\ user_cooldowns' = user_cooldowns
               /\ request_log' = request_log]_vars

\* The process has been started again over a file with a cooldown of one
\* minute, test mode on, a cooldown record written by the run before and the
\* log of earlier runs.
C32_Witness ==
    /\ reply.command = "restart"
    /\ bot_settings = [cooldown_minutes |-> 1, test_mode |-> "true"]
    /\ \E r \in user_cooldowns : r.last_request > 0
    /\ request_log # <<>>
    /\ \A s \in Sessions : sess[s].pc = "absent"

\* C33: every session that has started reaches a terminal state (rejected,
\* closed or failed), also when a call to the store or to the interpretation
\* service never answers.
C33_SessionsEnd ==
    \A s \in Sessions : (sess[s].pc = "queued") ~> Terminated(s)

\* The minutes that a stated wait covers.
StatedMinutes(wait) ==
    IF wait.unit = "hours" THEN wait.amount * 60 ELSE wait.amount

\* C34: for a remaining duration r >= 1 of the cooldown check, the wait the
\* cooldown notice states is never shorter than r: below 60 it is exactly r
\* minutes, and from 60 on it is a number of hours that covers r minutes.
C34_NoticeCoversWait ==
    \A s \in Sessions :
        (sent[s].kind = "COOLDOWN" /\ sent[s].minutes >= 1) =>
            LET r == sent[s].minutes
                wait == sent[s].wait
            IN  /\ StatedMinutes(wait) >= r
                /\ r < 60 => wait = [unit |-> "minutes", amount |-> r]
                /\ r >= 60 => wait.unit = "hours"

\* The bot processes that have passed BotLock.acquire and poll.
Polling == {b \in Bots : host.bot[b].pc = "polling"}

\* C35: at any time at most one bot process has passed BotLock.acquire and is
\* polling, however starts by hand and manage.py start and stop interleave.
C35_SingleInstance == Cardinality(Polling) <= 1

\* C36: when TarotBot.start has acquired the lock and has returned, after an
\* interrupt or after an error of the initialisation, the lock is released:
\* the process holds no flock and no open lock file.
C36_LockReleased ==
    \A b \in Bots :
        host.bot[b].pc = "returned"
            => (~host.bot[b].locked /\ host.bot[b].lock_fd = NoFile)

====
